---- MODULE Spec2Model ----
(***************************************************************************)
(* Lipoic-server: the OAuth2 delegation flow of util/src/oauth.rs          *)
(* (authorization URL, code exchange, user-info fetch, normalisation into  *)
(* OAuthAccountInfo) and the index/teapot routes of main.rs.               *)
(*                                                                         *)
(* A Rust String that the code takes apart or puts into a URL is a         *)
(* sequence of one-character strings; a String that is only copied whole   *)
(* (account fields) is a TLA+ string.                                      *)
(***************************************************************************)
EXTENDS Integers, Sequences, FiniteSets, TLC

VARIABLES
    data,             \* the OAuthData of the attempt
    pc,               \* position of the caller in the attempt
    attempts,         \* attempts started by the caller
    calls,            \* invocations of authorization_code / get_account_info
    requests,         \* outbound HTTP requests sent so far, in order
    steps,            \* steps of the current attempt, in order, with outcome
    token,            \* Option<AccessTokenInfo> held by the caller
    raw,              \* Option<raw provider account> decoded in get_account_info
    account,          \* Option<OAuthAccountInfo>
    exchange_result,  \* Option<Result<AccessTokenInfo, Error>> of the last call
    account_result,   \* Option<Result<OAuthAccountInfo, Box<dyn Error>>>
    auth_url,         \* Option<String> returned by get_auth_url
    server,           \* main.rs: position of main and state of the database link
    served            \* responses the rocket instance has sent, in order

vars == <<data, pc, attempts, calls, requests, steps, token, raw, account,
          exchange_result, account_result, auth_url, server, served>>

oauthVars == <<data, pc, attempts, calls, requests, steps, token, raw, account,
               exchange_result, account_result, auth_url>>

serverVars == <<server, served>>

(***************************************************************************)
(* Bounds of the model.                                                    *)
(***************************************************************************)
MaxLen == 2

MaxAttempts == 2

MaxRequests == 3

(***************************************************************************)
(* Option and Result.                                                      *)
(***************************************************************************)
None == [tag |-> "None"]

Some(v) == [tag |-> "Some", v |-> v]

Ok(v) == [tag |-> "Ok", v |-> v]

Err(e) == [tag |-> "Err", e |-> e]

IsSome(o) == o.tag = "Some"

IsOk(r) == r.tag = "Ok"

IsErr(r) == r.tag = "Err"

(***************************************************************************)
(* Provider registry: the constants of oauth.rs.                           *)
(***************************************************************************)
ConnectType == {"Google", "Facebook"}

GOOGLE_AUTH_URL ==
    <<"h","t","t","p","s",":","/","/","a","c","c","o","u","n","t","s",".","g","o","o","g","l",
      "e",".","c","o","m","/","o","/","o","a","u","t","h","2","/","a","u","t","h">>

GOOGLE_TOKEN_URL ==
    <<"h","t","t","p","s",":","/","/","o","a","u","t","h","2",".","g","o","o","g","l","e","a",
      "p","i","s",".","c","o","m","/","t","o","k","e","n">>

GOOGLE_USER_INFO ==
    <<"h","t","t","p","s",":","/","/","w","w","w",".","g","o","o","g","l","e","a","p","i","s",
      ".","c","o","m","/","o","a","u","t","h","2","/","v","1","/","u","s","e","r","i","n","f",
      "o","?","a","l","t","=","j","s","o","n">>

FACEBOOK_AUTH_URL ==
    <<"h","t","t","p","s",":","/","/","w","w","w",".","f","a","c","e","b","o","o","k",".","c",
      "o","m","/","d","i","a","l","o","g","/","o","a","u","t","h">>

FACEBOOK_TOKEN_URL ==
    <<"h","t","t","p","s",":","/","/","g","r","a","p","h",".","f","a","c","e","b","o","o","k",
      ".","c","o","m","/","v","1","4",".","0","/","o","a","u","t","h","/","a","c","c","e","s",
      "s","_","t","o","k","e","n">>

FACEBOOK_USER_INFO ==
    <<"h","t","t","p","s",":","/","/","g","r","a","p","h",".","f","a","c","e","b","o","o","k",
      ".","c","o","m","/","v","1","4",".","0">>

GoogleScope ==
    <<"h","t","t","p","s",":","/","/","w","w","w",".","g","o","o","g","l","e","a","p","i","s",
      ".","c","o","m","/","a","u","t","h","/","u","s","e","r","i","n","f","o",".","p","r","o",
      "f","i","l","e"," ","h","t","t","p","s",":","/","/","w","w","w",".","g","o","o","g","l",
      "e","a","p","i","s",".","c","o","m","/","a","u","t","h","/","u","s","e","r","i","n","f",
      "o",".","e","m","a","i","l">>

FacebookScope ==
    <<"p","u","b","l","i","c","_","p","r","o","f","i","l","e",",","e","m","a","i","l">>

AuthUrlClientId ==
    <<"?","c","l","i","e","n","t","_","i","d","=">>

AuthUrlScope ==
    <<"&","r","e","s","p","o","n","s","e","_","t","y","p","e","=","c","o","d","e","&","s","c",
      "o","p","e","=">>

AuthUrlRedirect ==
    <<"&","r","e","d","i","r","e","c","t","_","u","r","i","=">>

FacebookMeQuery ==
    <<"/","m","e","?","f","i","e","l","d","s","=","i","d",",","f","i","r","s","t","_","n","a",
      "m","e",",","l","a","s","t","_","n","a","m","e",",","n","a","m","e",",","e","m","a","i",
      "l",",","p","i","c","t","u","r","e","&","a","c","c","e","s","s","_","t","o","k","e","n",
      "=">>

GrantTypeValue ==
    <<"a","u","t","h","o","r","i","z","a","t","i","o","n","_","c","o","d","e">>

(***************************************************************************)
(* Strings as sequences of characters.                                     *)
(***************************************************************************)
RECURSIVE Concat(_)
Concat(ss) == IF ss = <<>> THEN <<>> ELSE Head(ss) \o Concat(Tail(ss))

Contains(s, c) == \E i \in 1..Len(s) : s[i] = c

\* index of the first c in s, 0 when there is none
IndexOf(s, c) ==
    IF Contains(s, c) THEN CHOOSE i \in 1..Len(s) : s[i] = c /\ \A j \in 1..(i-1) : s[j] # c
    ELSE 0

RECURSIVE SplitOn(_, _)
SplitOn(s, c) ==
    LET i == IndexOf(s, c)
    IN  IF i = 0 THEN <<s>>
        ELSE <<SubSeq(s, 1, i-1)>> \o SplitOn(SubSeq(s, i+1, Len(s)), c)

RECURSIVE StringsUpTo(_, _)
StringsUpTo(chars, n) ==
    IF n = 0 THEN {<<>>}
    ELSE LET shorter == StringsUpTo(chars, n-1)
         IN  shorter \cup {Append(s, c) : s \in shorter, c \in chars}

(***************************************************************************)
(* urlencoding::encode: every byte but the unreserved characters           *)
(* (ASCII letters, digits, '-', '_', '.', '~') becomes %XX, upper-case hex. *)
(***************************************************************************)
Letters ==
    {"a","b","c","d","e","f","g","h","i","j","k","l","m","n","o","p","q","r","s","t","u","v",
     "w","x","y","z","A","B","C","D","E","F","G","H","I","J","K","L","M","N","O","P","Q","R",
     "S","T","U","V","W","X","Y","Z"}

Digits == {"0","1","2","3","4","5","6","7","8","9"}

Unreserved == Letters \cup Digits \cup {"-", "_", ".", "~"}

\* the two hex digits of the ASCII code of a reserved character
HexOf(c) ==
    CASE c = " " -> <<"2","0">>
      [] c = "#" -> <<"2","3">>
      [] c = "%" -> <<"2","5">>
      [] c = "&" -> <<"2","6">>
      [] c = "+" -> <<"2","B">>
      [] c = "," -> <<"2","C">>
      [] c = "/" -> <<"2","F">>
      [] c = ":" -> <<"3","A">>
      [] c = "=" -> <<"3","D">>
      [] c = "?" -> <<"3","F">>
      [] c = "@" -> <<"4","0">>

encode_char(c) == IF c \in Unreserved THEN <<c>> ELSE <<"%">> \o HexOf(c)

RECURSIVE encode(_)
encode(s) == IF s = <<>> THEN <<>> ELSE encode_char(Head(s)) \o encode(Tail(s))

(***************************************************************************)
(* crate::util::get_redirect_uri_by_path: the issuing origin joined with   *)
(* the redirect path, tolerating a missing or an extra separator.          *)
(***************************************************************************)
RECURSIVE TrimEndSlash(_)
TrimEndSlash(s) ==
    IF s # <<>> /\ s[Len(s)] = "/" THEN TrimEndSlash(SubSeq(s, 1, Len(s)-1)) ELSE s

RECURSIVE TrimStartSlash(_)
TrimStartSlash(s) == IF s # <<>> /\ Head(s) = "/" THEN TrimStartSlash(Tail(s)) ELSE s

get_redirect_uri_by_path(issuer, path) ==
    TrimEndSlash(issuer) \o <<"/">> \o TrimStartSlash(path)

(***************************************************************************)
(* OAuthData.                                                              *)
(***************************************************************************)
OAuthData_new(account_type, client_secret, client_id, issuer, redirect_path) ==
    [account_type |-> account_type, client_secret |-> client_secret,
     client_id |-> client_id, issuer |-> issuer, redirect_path |-> redirect_path]

get_auth_url(self) ==
    LET scope == IF self.account_type = "Google" THEN encode(GoogleScope)
                 ELSE encode(FacebookScope)
        url == IF self.account_type = "Google" THEN GOOGLE_AUTH_URL ELSE FACEBOOK_AUTH_URL
        redirect_uri == get_redirect_uri_by_path(self.issuer, self.redirect_path)
    IN  Concat(<<url, AuthUrlClientId, self.client_id, AuthUrlScope, scope,
                 AuthUrlRedirect, encode(redirect_uri)>>)

(***************************************************************************)
(* Outbound HTTP: what reqwest sends and what comes back.                  *)
(***************************************************************************)
TransportError == [kind |-> "transport_error"]

Response(status, body) == [kind |-> "response", status |-> status, body |-> body]

\* a response body: JSON with the fields v, or text that is no JSON
Json(v) == [json |-> TRUE, v |-> v]

NotJson == [json |-> FALSE, v |-> [text |-> "<html>"]]

Statuses == {200, 400}

Is2xx(status) == status >= 200 /\ status <= 299

AccessTokens == {<<"t","1">>, <<"t","2">>}

GoogleTokenBody(t) ==
    Json([access_token |-> t, expires_in |-> 3599, scope |-> "openid email",
          token_type |-> "Bearer", id_token |-> "jwt"])

FacebookTokenBody(t) ==
    Json([access_token |-> t, token_type |-> "bearer", expires_in |-> 5183944])

\* a token response that lacks expires_in
PartialTokenBody == Json([access_token |-> <<"t","1">>, token_type |-> "bearer"])

ErrorBody == Json([error |-> "invalid_grant"])

TokenBodies ==
    {GoogleTokenBody(t) : t \in AccessTokens} \cup {FacebookTokenBody(<<"t","1">>)}
        \cup {PartialTokenBody, ErrorBody, NotJson}

GoogleAccountBody(verified) ==
    Json([id |-> "1", email |-> "a@b.com", verified_email |-> verified, name |-> "A",
          given_name |-> "A", family_name |-> "B", picture |-> "http://p", locale |-> "en"])

FacebookAccountBody ==
    Json([id |-> "2", first_name |-> "A", last_name |-> "B", name |-> "A B",
          email |-> "a@b.com",
          picture |-> [data |-> [height |-> 50, is_silhouette |-> FALSE,
                                 url |-> "http://q", width |-> 50]]])

AccountBodies ==
    {GoogleAccountBody(v) : v \in BOOLEAN} \cup {FacebookAccountBody, ErrorBody, NotJson}

TokenOutcomes == {TransportError} \cup {Response(s, b) : s \in Statuses, b \in TokenBodies}

AccountOutcomes == {TransportError} \cup {Response(s, b) : s \in Statuses, b \in AccountBodies}

(***************************************************************************)
(* serde: the derived Deserialize of each struct. A missing field is an    *)
(* error; unknown fields are ignored; a skip_deserializing field is never  *)
(* read and gets its Default.                                              *)
(***************************************************************************)
HasFields(body, names) == body.json /\ names \subseteq DOMAIN body.v

from_json_AccessTokenInfo(body) ==
    IF HasFields(body, {"access_token", "expires_in", "token_type"})
    THEN Ok([access_token |-> body.v.access_token,
             expires_in   |-> body.v.expires_in,
             scope        |-> "",
             token_type   |-> body.v.token_type,
             id_token     |-> ""])
    ELSE Err("decode")

from_json_GoogleAccountInfo(body) ==
    IF HasFields(body, {"id", "email", "verified_email", "name", "given_name",
                        "family_name", "picture", "locale"})
    THEN Ok([shape |-> "GoogleAccountInfo",
             id |-> body.v.id, email |-> body.v.email,
             verified_email |-> body.v.verified_email, name |-> body.v.name,
             given_name |-> body.v.given_name, family_name |-> body.v.family_name,
             picture |-> body.v.picture, locale |-> body.v.locale])
    ELSE Err("decode")

from_json_FacebookAccountInfo(body) ==
    IF /\ HasFields(body, {"id", "first_name", "last_name", "name", "email", "picture"})
       /\ "data" \in DOMAIN body.v.picture
       /\ {"height", "is_silhouette", "url", "width"} \subseteq DOMAIN body.v.picture.data
    THEN Ok([shape |-> "FacebookAccountInfo",
             id |-> body.v.id, first_name |-> body.v.first_name,
             last_name |-> body.v.last_name, name |-> body.v.name,
             email |-> body.v.email,
             picture |-> [data |-> [height |-> body.v.picture.data.height,
                                    is_silhouette |-> body.v.picture.data.is_silhouette,
                                    url |-> body.v.picture.data.url,
                                    width |-> body.v.picture.data.width]]])
    ELSE Err("decode")

(***************************************************************************)
(* OAuthAccountInfo::from_google / from_facebook.                          *)
(***************************************************************************)
\* a variant that treats every Google account as verified
from_google_verified(google_account_info) ==
    [id |-> google_account_info.id,
     name |-> google_account_info.name,
     email |-> google_account_info.email,
     picture |-> google_account_info.picture,
     verified_email |-> TRUE]

from_google(google_account_info) ==
    [id |-> google_account_info.id,
     name |-> google_account_info.name,
     email |-> google_account_info.email,
     picture |-> google_account_info.picture,
     verified_email |-> google_account_info.verified_email]

\* a variant that takes the first name for the name
from_facebook_first_name(facebook_account_info) ==
    [id |-> facebook_account_info.id,
     name |-> facebook_account_info.first_name,
     email |-> facebook_account_info.email,
     picture |-> facebook_account_info.picture.data.url,
     verified_email |-> TRUE]

from_facebook(facebook_account_info) ==
    [id |-> facebook_account_info.id,
     name |-> facebook_account_info.name,
     email |-> facebook_account_info.email,
     picture |-> facebook_account_info.picture.data.url,
     verified_email |-> TRUE]

(***************************************************************************)
(* OAuthData::authorization_code: the request it builds and sends, and     *)
(* what it returns once the send has resolved.                             *)
(***************************************************************************)
\* a variant that sends grant_type to every provider
form_data_grant_always(self, code) ==
    <<  <<"client_id", self.client_id>>,
        <<"client_secret", self.client_secret>>,
        <<"code", code>>,
        <<"redirect_uri", get_redirect_uri_by_path(self.issuer, self.redirect_path)>>,
        <<"grant_type", GrantTypeValue>>  >>

form_data(self, code) ==
    <<  <<"client_id", self.client_id>>,
        <<"client_secret", self.client_secret>>,
        <<"code", code>>,
        <<"redirect_uri", get_redirect_uri_by_path(self.issuer, self.redirect_path)>>  >>
    \o (IF self.account_type = "Google" THEN << <<"grant_type", GrantTypeValue>> >> ELSE <<>>)

\* a variant that posts every exchange to Google
token_url_google(self) == GOOGLE_TOKEN_URL

token_url(self) ==
    IF self.account_type = "Google" THEN GOOGLE_TOKEN_URL ELSE FACEBOOK_TOKEN_URL

authorization_code_request(self, code) ==
    [method |-> "POST", url |-> token_url(self), form |-> Some(form_data(self, code)),
     basic_auth |-> Some(<<self.client_id, self.client_secret>>), bearer |-> None]

\* a variant that falls back to an empty AccessTokenInfo when decoding fails
authorization_code_response_default(outcome) ==
    IF outcome.kind = "transport_error" THEN Err("transport")
    ELSE IF IsOk(from_json_AccessTokenInfo(outcome.body))
         THEN from_json_AccessTokenInfo(outcome.body)
         ELSE Ok([access_token |-> <<>>, expires_in |-> 0, scope |-> "",
                  token_type |-> "", id_token |-> ""])

\* send().await? and then response.json().await: the status is not looked at
authorization_code_response(outcome) ==
    IF outcome.kind = "transport_error" THEN Err("transport")
    ELSE from_json_AccessTokenInfo(outcome.body)

(***************************************************************************)
(* AccessTokenInfo::get_google_user_info / get_facebook_user_info /        *)
(* get_account_info.                                                       *)
(***************************************************************************)
get_google_user_info_request(self) ==
    [method |-> "GET", url |-> GOOGLE_USER_INFO, form |-> None, basic_auth |-> None,
     bearer |-> Some(self.access_token)]

get_google_user_info_response(outcome) ==
    IF outcome.kind = "transport_error" THEN Err("transport")
    ELSE from_json_GoogleAccountInfo(outcome.body)

get_facebook_user_info_request(self) ==
    [method |-> "GET", url |-> Concat(<<FACEBOOK_USER_INFO, FacebookMeQuery, self.access_token>>),
     form |-> None, basic_auth |-> None, bearer |-> None]

get_facebook_user_info_response(outcome) ==
    IF outcome.kind = "transport_error" THEN Err("transport")
    ELSE from_json_FacebookAccountInfo(outcome.body)

get_account_info_request(self, account_type) ==
    IF account_type = "Google" THEN get_google_user_info_request(self)
    ELSE get_facebook_user_info_request(self)

\* a variant that normalises an empty account when the fetch failed
get_account_info_response_default(account_type, outcome) ==
    LET fetched == IF account_type = "Google" THEN get_google_user_info_response(outcome)
                   ELSE get_facebook_user_info_response(outcome)
        empty == [id |-> "", name |-> "", email |-> "", picture |-> "",
                  verified_email |-> FALSE]
    IN  IF IsErr(fetched)
        THEN [raw |-> None,
              normalizer |-> Some(IF account_type = "Google" THEN "from_google"
                                  ELSE "from_facebook"),
              result |-> Ok(empty)]
        ELSE [raw |-> Some(fetched.v),
              normalizer |-> Some(IF account_type = "Google" THEN "from_google"
                                  ELSE "from_facebook"),
              result |-> Ok(IF account_type = "Google" THEN from_google(fetched.v)
                            ELSE from_facebook(fetched.v))]

\* what get_account_info does once the user-info request has resolved: the
\* raw account it decoded, the normaliser it applied, and what it returns
get_account_info_response(account_type, outcome) ==
    LET fetched == IF account_type = "Google" THEN get_google_user_info_response(outcome)
                   ELSE get_facebook_user_info_response(outcome)
    IN  IF IsErr(fetched)
        THEN [raw |-> None, normalizer |-> None, result |-> Err(fetched.e)]
        ELSE [raw |-> Some(fetched.v),
              normalizer |-> Some(IF account_type = "Google" THEN "from_google"
                                  ELSE "from_facebook"),
              result |-> Ok(IF account_type = "Google" THEN from_google(fetched.v)
                            ELSE from_facebook(fetched.v))]

(***************************************************************************)
(* The caller of the flow (the authentication route): one attempt is       *)
(* get_auth_url, then authorization_code, then get_account_info on the     *)
(* AccessTokenInfo it got; it stops at the first Err.                      *)
(***************************************************************************)
Chars == {"a", "-", "&", "?", " "}

Issuers == {<<"h",":","/","/","a",".","b">>, <<"h",":","/","/","a",".","b","/">>}

RedirectPaths == {<<"/","c","b">>, <<"c","b">>, <<"/","c"," ","b">>, <<"/","c","&","d","?","e">>}

ClientSecret == <<"s","3">>

Codes == {<<"c","1">>, <<"c","2">>}

\* the contexts of the authorization-URL specification
UrlData ==
    {OAuthData_new(k, ClientSecret, id, iss, path) :
        k \in ConnectType, id \in StringsUpTo(Chars, MaxLen), iss \in Issuers,
        path \in RedirectPaths}

\* the contexts of the flow specification
FlowData ==
    {OAuthData_new(k, ClientSecret, id, <<"h",":","/","/","a",".","b">>, <<"/","c","b">>) :
        k \in ConnectType, id \in {<<"i","d">>, <<"a","&">>}}

\* the account type the caller hands to get_account_info
CallerAccountType == data.account_type

\* where the caller goes after a step that returned r
NextStep(r, then) == IF IsOk(r) THEN then ELSE "failed"

Count(op) == Cardinality({i \in 1..Len(requests) : requests[i].op = op})

InitServer ==
    /\ server = [pc |-> "boot", db |-> "unknown"]
    /\ served = <<>>

InitFlow ==
    /\ pc = "idle"
    /\ attempts = 1
    /\ calls = [authorization_code |-> 0, get_account_info |-> 0]
    /\ requests = <<>>
    /\ steps = <<>>
    /\ token = None
    /\ raw = None
    /\ account = None
    /\ exchange_result = None
    /\ account_result = None
    /\ auth_url = None

Init ==
    /\ data \in FlowData
    /\ InitFlow
    /\ InitServer

GetAuthUrl ==
    /\ pc = "idle"
    /\ auth_url' = Some(get_auth_url(data))
    /\ pc' = "consent"
    /\ UNCHANGED <<data, attempts, calls, requests, steps, token, raw, account,
                   exchange_result, account_result, serverVars>>

AuthorizationCodeSend ==
    /\ pc = "consent"
    /\ \E code \in Codes :
          requests' = Append(requests, [op |-> "authorization_code", attempt |-> attempts,
                                        req |-> authorization_code_request(data, code)])
    /\ calls' = [calls EXCEPT !.authorization_code = @ + 1]
    /\ pc' = "exchange_wait"
    /\ UNCHANGED <<data, attempts, steps, token, raw, account, exchange_result,
                   account_result, auth_url, serverVars>>

\* a variant that sends the request again when the transport failed
AuthorizationCodeRecvRetry ==
    /\ pc = "exchange_wait"
    /\ \E outcome \in TokenOutcomes :
          LET r == authorization_code_response(outcome)
          IN  IF outcome.kind = "transport_error"
              THEN /\ requests' = Append(requests, requests[Len(requests)])
                   /\ pc' = "failed"
                   /\ exchange_result' = Some(r)
                   /\ token' = None
                   /\ steps' = Append(steps, [op |-> "authorization_code", ok |-> FALSE,
                                              outcome |-> outcome])
              ELSE /\ requests' = requests
                   /\ exchange_result' = Some(r)
                   /\ token' = IF IsOk(r) THEN Some(r.v) ELSE None
                   /\ steps' = Append(steps, [op |-> "authorization_code", ok |-> IsOk(r),
                                              outcome |-> outcome])
                   /\ pc' = NextStep(r, "exchanged")
    /\ UNCHANGED <<data, attempts, calls, raw, account, account_result, auth_url,
                   serverVars>>

AuthorizationCodeRecv ==
    /\ pc = "exchange_wait"
    /\ \E outcome \in TokenOutcomes :
          LET r == authorization_code_response(outcome)
          IN  /\ exchange_result' = Some(r)
              /\ token' = IF IsOk(r) THEN Some(r.v) ELSE None
              /\ steps' = Append(steps, [op |-> "authorization_code", ok |-> IsOk(r),
                                         outcome |-> outcome])
              /\ pc' = NextStep(r, "exchanged")
    /\ UNCHANGED <<data, attempts, calls, requests, raw, account, account_result,
                   auth_url, serverVars>>

GetAccountInfoSend ==
    /\ pc = "exchanged"
    /\ IsSome(token)
    /\ requests' = Append(requests, [op |-> "get_account_info", attempt |-> attempts,
                                     req |-> get_account_info_request(token.v,
                                                                      CallerAccountType)])
    /\ calls' = [calls EXCEPT !.get_account_info = @ + 1]
    /\ pc' = "fetch_wait"
    /\ UNCHANGED <<data, attempts, steps, token, raw, account, exchange_result,
                   account_result, auth_url, serverVars>>

GetAccountInfoRecv ==
    /\ pc = "fetch_wait"
    /\ \E outcome \in AccountOutcomes :
          LET got == get_account_info_response(CallerAccountType, outcome)
          IN  /\ raw' = got.raw
              /\ account_result' = Some(got.result)
              /\ account' = IF IsOk(got.result) THEN Some(got.result.v) ELSE None
              /\ steps' = steps
                    \o << [op |-> "get_user_info", ok |-> IsSome(got.raw),
                           outcome |-> outcome] >>
                    \o (IF IsSome(got.normalizer)
                        THEN << [op |-> got.normalizer.v, ok |-> IsOk(got.result),
                                 outcome |-> [kind |-> "pure"]] >>
                        ELSE <<>>)
              /\ pc' = NextStep(got.result, "done")
    /\ UNCHANGED <<data, attempts, calls, requests, token, exchange_result, auth_url,
                   serverVars>>

\* the user signs in again after a failed attempt: a new attempt of the caller
Restart ==
    /\ pc = "failed"
    /\ attempts < MaxAttempts
    /\ attempts' = attempts + 1
    /\ pc' = "consent"
    /\ steps' = <<>>
    /\ token' = None
    /\ raw' = None
    /\ account' = None
    /\ exchange_result' = None
    /\ account_result' = None
    /\ UNCHANGED <<data, calls, requests, auth_url, serverVars>>

Next ==
    \/ GetAuthUrl
    \/ AuthorizationCodeSend
    \/ AuthorizationCodeRecv
    \/ GetAccountInfoSend
    \/ GetAccountInfoRecv
    \/ Restart

Spec == Init /\ [][Next]_vars

(***************************************************************************)
(* get_auth_url over every client id up to MaxLen characters.              *)
(***************************************************************************)
InitUrl ==
    /\ data \in UrlData
    /\ InitFlow
    /\ InitServer

NextUrl == GetAuthUrl

SpecUrl == InitUrl /\ [][NextUrl]_vars

(***************************************************************************)
(* The normalisers over every raw account of a bounded set.                *)
(***************************************************************************)
GoogleRaws ==
    [shape : {"GoogleAccountInfo"}, id : {"1", "2"}, email : {"a@b.com", "c@d.com"},
     verified_email : BOOLEAN, name : {"A", "N"}, given_name : {"A", "G"},
     family_name : {"B", "F"}, picture : {"http://p", "http://x"}, locale : {"en", "zh"}]

FacebookRaws ==
    [shape : {"FacebookAccountInfo"}, id : {"1", "2"}, first_name : {"A", "G"},
     last_name : {"B", "F"}, name : {"A", "N"}, email : {"a@b.com", "c@d.com"},
     picture : [data : [height : {50, 100}, is_silhouette : BOOLEAN,
                        url : {"http://q", "http://p"}, width : {50}]]]

KindOf(shape) == IF shape = "GoogleAccountInfo" THEN "Google" ELSE "Facebook"

InitNorm ==
    /\ raw \in {Some(r) : r \in GoogleRaws \cup FacebookRaws}
    /\ data = OAuthData_new(KindOf(raw.v.shape), ClientSecret, <<"i","d">>,
                            <<"h",":","/","/","a",".","b">>, <<"/","c","b">>)
    /\ pc = "fetched"
    /\ attempts = 1
    /\ calls = [authorization_code |-> 0, get_account_info |-> 0]
    /\ requests = <<>>
    /\ steps = <<>>
    /\ token = None
    /\ account = None
    /\ exchange_result = None
    /\ account_result = None
    /\ auth_url = None
    /\ InitServer

FromGoogle ==
    /\ pc = "fetched"
    /\ raw.v.shape = "GoogleAccountInfo"
    /\ account' = Some(from_google(raw.v))
    /\ steps' = Append(steps, [op |-> "from_google", ok |-> TRUE, outcome |-> [kind |-> "pure"]])
    /\ pc' = "done"
    /\ UNCHANGED <<data, attempts, calls, requests, token, raw, exchange_result,
                   account_result, auth_url, serverVars>>

FromFacebook ==
    /\ pc = "fetched"
    /\ raw.v.shape = "FacebookAccountInfo"
    /\ account' = Some(from_facebook(raw.v))
    /\ steps' = Append(steps, [op |-> "from_facebook", ok |-> TRUE, outcome |-> [kind |-> "pure"]])
    /\ pc' = "done"
    /\ UNCHANGED <<data, attempts, calls, requests, token, raw, exchange_result,
                   account_result, auth_url, serverVars>>

NextNorm ==
    \/ FromGoogle
    \/ FromFacebook

SpecNorm == InitNorm /\ [][NextNorm]_vars

(***************************************************************************)
(* main.rs: main connects to the database and launches rocket with the     *)
(* routes index and teapot and the 404 catcher.                            *)
(***************************************************************************)
Response_ok(description) == [code |-> 200, description |-> description]

Response_teapot(description) == [code |-> 418, description |-> description]

Response_not_found(req) == [code |-> 404, description |-> "Not Found"]

not_found(req) == Response_not_found(req)

teapot == Response_teapot("I'm a teapot!")

\* a variant that answers with the teapot response
index_teapot == Response_teapot("hello world!")

index == Response_ok("hello world!")

Methods == {"GET", "POST"}

Paths == {"/", "/teapot", "/api/user/info"}

\* what main can meet before it launches rocket
Startups == {"ok", "no MONGODB_URL", "parse error", "ping error", "list error"}

InitMain ==
    /\ data = OAuthData_new("Google", ClientSecret, <<"i","d">>,
                            <<"h",":","/","/","a",".","b">>, <<"/","c","b">>)
    /\ InitFlow
    /\ InitServer

Main ==
    /\ server.pc = "boot"
    /\ \E s \in Startups :
          server' = IF s = "ok" THEN [pc |-> "serving", db |-> "connected"]
                    ELSE [pc |-> "exited", db |-> s]
    /\ UNCHANGED <<oauthVars, served>>

\* the database link is lost while rocket serves
DbLost ==
    /\ server.pc = "serving"
    /\ server.db = "connected"
    /\ server' = [server EXCEPT !.db = "lost"]
    /\ UNCHANGED <<oauthVars, served>>

Index ==
    /\ server.pc = "serving"
    /\ Len(served) < MaxRequests
    /\ served' = Append(served, [method |-> "GET", path |-> "/", status |-> 200,
                                 body |-> index])
    /\ UNCHANGED <<oauthVars, server>>

Teapot ==
    /\ server.pc = "serving"
    /\ Len(served) < MaxRequests
    /\ served' = Append(served, [method |-> "GET", path |-> "/teapot", status |-> 200,
                                 body |-> teapot])
    /\ UNCHANGED <<oauthVars, server>>

\* a request no route matches goes to the 404 catcher
NotFound ==
    /\ server.pc = "serving"
    /\ Len(served) < MaxRequests
    /\ \E method \in Methods, path \in Paths :
          /\ ~(method = "GET" /\ path \in {"/", "/teapot"})
          /\ served' = Append(served, [method |-> method, path |-> path, status |-> 404,
                                       body |-> not_found([method |-> method,
                                                           path |-> path])])
    /\ UNCHANGED <<oauthVars, server>>

NextMain ==
    \/ Main
    \/ DbLost
    \/ Index
    \/ Teapot
    \/ NotFound

SpecMain == InitMain /\ [][NextMain]_vars

(***************************************************************************)
(* Properties.                                                             *)
(***************************************************************************)
Kind == data.account_type

FieldNames(form) == {form[j][1] : j \in 1..Len(form)}

ExchangeRequests == {i \in 1..Len(requests) : requests[i].op = "authorization_code"}

FetchRequests == {i \in 1..Len(requests) : requests[i].op = "get_account_info"}

\* C1: the form body of every token-exchange request holds exactly the fields
\* client_id, client_secret, code and redirect_uri, each once, plus
\* grant_type=authorization_code if and only if the provider is Google; a
\* Facebook body never holds a grant_type field.
FormBodyFields ==
    \A i \in ExchangeRequests :
        LET form == requests[i].req.form.v
        IN  /\ requests[i].req.method = "POST"
            /\ FieldNames(form) =
                  {"client_id", "client_secret", "code", "redirect_uri"}
                      \cup (IF Kind = "Google" THEN {"grant_type"} ELSE {})
            /\ Len(form) = Cardinality(FieldNames(form))
            /\ \A j \in 1..Len(form) :
                  /\ form[j][1] = "grant_type" => form[j][2] = GrantTypeValue
                  /\ form[j][1] = "client_id" => form[j][2] = data.client_id
                  /\ form[j][1] = "client_secret" => form[j][2] = data.client_secret
                  /\ form[j][1] = "code" => form[j][2] \in Codes
            /\ Kind = "Facebook" => "grant_type" \notin FieldNames(form)

FacebookExchangeSent ==
    /\ Kind = "Facebook"
    /\ Cardinality(ExchangeRequests) = 2

\* C2: from_facebook yields verified_email = TRUE whatever the raw account
\* holds; from_google yields the raw account's verified_email, true or false.
VerifiedEmailPolicy ==
    (pc = "done" /\ IsSome(raw)) =>
        /\ IsSome(account)
        /\ raw.v.shape = "FacebookAccountInfo" => account.v.verified_email = TRUE
        /\ raw.v.shape = "GoogleAccountInfo" =>
              account.v.verified_email = raw.v.verified_email

GoogleUnverifiedNormalized ==
    /\ pc = "done"
    /\ IsSome(account)
    /\ raw.v.shape = "GoogleAccountInfo"
    /\ raw.v.verified_email = FALSE

\* C3: normalisation always yields an account; its id, name and email are the
\* raw account's, its picture is the raw picture (Google) or the nested
\* picture.data.url (Facebook), and nothing else of the raw account is in it.
NormalizeCopiesFields ==
    (pc = "done" /\ IsSome(raw)) =>
        /\ IsSome(account)
        /\ account.v =
              [id |-> raw.v.id, name |-> raw.v.name, email |-> raw.v.email,
               picture |-> IF raw.v.shape = "GoogleAccountInfo" THEN raw.v.picture
                           ELSE raw.v.picture.data.url,
               verified_email |-> account.v.verified_email]

FacebookNormalized ==
    /\ pc = "done"
    /\ IsSome(account)
    /\ raw.v.shape = "FacebookAccountInfo"
    /\ raw.v.first_name # raw.v.name
    /\ raw.v.picture.data.url = "http://q"

Normalizers == {"from_google", "from_facebook"}

StepOps == [i \in 1..Len(steps) |-> steps[i].op]

\* C4: an attempt stops at its first failing step: no step follows a failed
\* one; after a failed exchange there is no AccessTokenInfo and no user-info
\* request of this attempt; after a failed fetch no normaliser ran and the
\* caller holds an Err; an account exists only after exchange, fetch and
\* normalisation succeeded, in that order.
FailsAtFirstFailingStep ==
    /\ \A i \in 1..Len(steps) : ~steps[i].ok => (i = Len(steps) /\ pc = "failed")
    /\ (IsSome(exchange_result) /\ IsErr(exchange_result.v)) =>
          /\ token = None
          /\ pc = "failed"
          /\ \A i \in FetchRequests : requests[i].attempt # attempts
          /\ StepOps = <<"authorization_code">>
    /\ (IsSome(account_result) /\ IsErr(account_result.v)) =>
          /\ account = None
          /\ pc = "failed"
          /\ \A i \in 1..Len(steps) : steps[i].op \notin Normalizers
    /\ IsSome(account) =>
          /\ Len(steps) = 3
          /\ StepOps[1] = "authorization_code"
          /\ StepOps[2] = "get_user_info"
          /\ StepOps[3] \in Normalizers
          /\ \A i \in 1..3 : steps[i].ok
          /\ IsSome(token)
          /\ IsSome(raw)

FetchTransportFailed ==
    /\ pc = "failed"
    /\ Len(steps) = 2
    /\ steps[2].op = "get_user_info"
    /\ steps[2].outcome.kind = "transport_error"
    /\ IsErr(account_result.v)

KeyClientId ==
    <<"c","l","i","e","n","t","_","i","d","=">>

KeyResponseType ==
    <<"r","e","s","p","o","n","s","e","_","t","y","p","e","=","c","o","d","e">>

KeyScope ==
    <<"s","c","o","p","e","=">>

KeyRedirectUri ==
    <<"r","e","d","i","r","e","c","t","_","u","r","i","=">>

RawQueryChars == {"&", "?", " "}

\* C5: the authorization URL is {authorize_endpoint}?client_id=..&
\* response_type=code&scope=..&redirect_uri=.. with the client id, the scope
\* and the redirect URI percent-encoded, so that no raw '&', '?' or space is
\* inside a query value.
AuthUrlQueryEncoded ==
    IsSome(auth_url) =>
        LET url == auth_url.v
            q == IndexOf(url, "?")
            params == SplitOn(SubSeq(url, q + 1, Len(url)), "&")
        IN  /\ q > 0
            /\ SubSeq(url, 1, q - 1) =
                  (IF Kind = "Google" THEN GOOGLE_AUTH_URL ELSE FACEBOOK_AUTH_URL)
            /\ Len(params) = 4
            /\ params[1] = KeyClientId \o encode(data.client_id)
            /\ params[2] = KeyResponseType
            /\ params[3] = KeyScope \o encode(IF Kind = "Google" THEN GoogleScope
                                              ELSE FacebookScope)
            /\ params[4] = KeyRedirectUri
                  \o encode(get_redirect_uri_by_path(data.issuer, data.redirect_path))
            /\ \A j \in 1..4 : \A c \in RawQueryChars : ~Contains(params[j], c)

RequiredFields(op) ==
    IF op = "authorization_code" THEN {"access_token", "expires_in", "token_type"}
    ELSE IF Kind = "Google"
         THEN {"id", "email", "verified_email", "name", "given_name", "family_name",
               "picture", "locale"}
         ELSE {"id", "first_name", "last_name", "name", "email", "picture"}

\* the body is no JSON or lacks a field of the shape the step decodes
Undecodable(op, body) == ~body.json \/ ~(RequiredFields(op) \subseteq DOMAIN body.v)

NonSuccess(step) == step.outcome.kind = "response" /\ ~Is2xx(step.outcome.status)

ResultOf(op) == IF op = "authorization_code" THEN exchange_result ELSE account_result

\* C6 as claimed: every non-2xx response to the token-exchange or the
\* user-info request is returned to the caller as an error, whatever its body.
NonSuccessIsError ==
    \A i \in 1..Len(steps) :
        NonSuccess(steps[i]) => (~steps[i].ok /\ IsErr(ResultOf(steps[i].op).v))

\* C6 as amended: a non-2xx response whose body is no JSON or lacks a field of
\* the expected shape (a provider error payload) is returned to the caller as
\* an error, the attempt ends there, and the request is not sent again.
NonSuccessErrorPayloadIsError ==
    \A i \in 1..Len(steps) :
        (NonSuccess(steps[i]) /\ Undecodable(steps[i].op, steps[i].outcome.body)) =>
            /\ ~steps[i].ok
            /\ IsErr(ResultOf(steps[i].op).v)
            /\ i = Len(steps)
            /\ pc = "failed"
            /\ Count("authorization_code") = calls.authorization_code
            /\ Count("get_account_info") = calls.get_account_info

ProviderErrorReturned ==
    /\ Len(steps) = 2
    /\ NonSuccess(steps[2])
    /\ steps[2].outcome.body = ErrorBody
    /\ IsErr(account_result.v)

\* C7: the token endpoint, the user-info endpoint and its authentication
\* style (Google: bearer header; Facebook: access_token in the query, no
\* bearer header), the raw shape decoded and the normaliser applied are all
\* those of the OAuthData's provider.
ProviderNeverMixed ==
    /\ \A i \in ExchangeRequests :
          requests[i].req.url =
              (IF Kind = "Google" THEN GOOGLE_TOKEN_URL ELSE FACEBOOK_TOKEN_URL)
    /\ \A i \in FetchRequests :
          LET req == requests[i].req
          IN  IF Kind = "Google"
              THEN /\ req.url = GOOGLE_USER_INFO
                   /\ IsSome(req.bearer)
                   /\ req.bearer.v \in AccessTokens
              ELSE /\ req.bearer = None
                   /\ \E t \in AccessTokens :
                         req.url = Concat(<<FACEBOOK_USER_INFO, FacebookMeQuery, t>>)
    /\ IsSome(raw) =>
          raw.v.shape = (IF Kind = "Google" THEN "GoogleAccountInfo"
                         ELSE "FacebookAccountInfo")
    /\ \A i \in 1..Len(steps) :
          steps[i].op \in Normalizers =>
              steps[i].op = (IF Kind = "Google" THEN "from_google" ELSE "from_facebook")
    /\ Cardinality({i \in 1..Len(steps) : steps[i].op \in Normalizers}) <= 1

FacebookFlowDone ==
    /\ Kind = "Facebook"
    /\ pc = "done"
    /\ IsSome(account)

\* C8: every invocation of authorization_code and of get_account_info sends
\* exactly one request and returns Ok or Err; a failed call is not sent again
\* and its Err is what the caller gets.
OneRequestPerCall ==
    /\ Count("authorization_code") = calls.authorization_code
    /\ Count("get_account_info") = calls.get_account_info
    /\ calls.authorization_code <= attempts
    /\ calls.get_account_info <= calls.authorization_code
    /\ pc \in {"exchanged", "fetch_wait", "done"} => IsOk(exchange_result.v)
    /\ pc = "done" => IsOk(account_result.v)
    /\ pc = "failed" =>
          \/ IsSome(exchange_result) /\ IsErr(exchange_result.v)
          \/ IsSome(account_result) /\ IsErr(account_result.v)

ExchangeTransportFailedTwice ==
    /\ pc = "failed"
    /\ attempts = 2
    /\ calls.authorization_code = 2
    /\ Len(steps) = 1
    /\ steps[1].outcome.kind = "transport_error"

\* C9: in the AccessTokenInfo of a successful exchange, access_token,
\* expires_in and token_type are the response's; scope and id_token are the
\* response's when the provider is Google and empty when it is Facebook.
TokenCarriesResponse ==
    IsSome(token) =>
        LET body == steps[1].outcome.body.v
        IN  /\ token.v.access_token = body.access_token
            /\ token.v.expires_in = body.expires_in
            /\ token.v.token_type = body.token_type
            /\ IF Kind = "Google"
               THEN /\ "scope" \in DOMAIN body => token.v.scope = body.scope
                    /\ "id_token" \in DOMAIN body => token.v.id_token = body.id_token
               ELSE /\ token.v.scope = ""
                    /\ token.v.id_token = ""

\* C10: every GET of "/" is answered 200 with the body
\* {"code":200,"description":"hello world!"}, whatever was served before and
\* whatever the state of the database link.
IndexAlwaysHello ==
    \A i \in 1..Len(served) :
        (served[i].method = "GET" /\ served[i].path = "/") =>
            /\ served[i].status = 200
            /\ served[i].body = [code |-> 200, description |-> "hello world!"]

IndexServedAfterOthers ==
    /\ server.db = "lost"
    /\ Len(served) = 3
    /\ served[1].path = "/teapot"
    /\ served[2].status = 404
    /\ served[3].path = "/"
    /\ served[3].method = "GET"
====
